---- MODULE Spec2Model ----
(***************************************************************************)
(* The Feature state container of the panel (dialog, drawer, view, ...):   *)
(* its reactive state, its listener map and its load / open / post /       *)
(* refresh / reload lifecycle around the asynchronous panel calls; and the *)
(* date field of the form, with its separate date and time parts.          *)
(*                                                                         *)
(* JavaScript values are tagged records, so that typeof, truthiness, ??    *)
(* and !== are computed the way the language computes them.                *)
(***************************************************************************)
EXTENDS Naturals, Sequences, FiniteSets, Bags, TLC

VARIABLES
    component,   \* the feature component
    isLoading,   \* loading state
    on,          \* event listeners
    path,        \* relative path to this feature
    props,       \* all props for the feature component
    query,       \* the query parameters from the latest request
    referrer,    \* referrer for redirects in handlers
    timestamp,   \* timestamp from the backend
    calls,       \* the bag of suspended async calls, each at its await
    last,        \* what the latest step did: operation, result, panel calls
    field,       \* a date field: its time and value props, iso, isInvalid
    did          \* what the latest handler of the date field did

vars == <<component, isLoading, on, path, props, query, referrer, timestamp,
          calls, last>>

fieldVars == <<field, did>>

\* The number of async calls that may be suspended at the same time.
MaxCalls == 2

-----------------------------------------------------------------------------
(* JavaScript values *)

Null      == [t |-> "null"]
Undefined == [t |-> "undefined"]
JsTrue    == [t |-> "boolean", v |-> TRUE]
JsFalse   == [t |-> "boolean", v |-> FALSE]
Str(s)    == [t |-> "string", v |-> s]
Num(n)    == [t |-> "number", v |-> n]
Fn(f)     == [t |-> "function", v |-> f]
Obj(m)    == [t |-> "object", m |-> m]
Err(e)    == [t |-> "error", v |-> e]
EmptyMap  == [k \in {} |-> Undefined]
EmptyObj  == Obj(EmptyMap)

\* o[k] / o.k: undefined for a key the object does not have
Get(o, k) == IF o.t = "object" /\ k \in DOMAIN o.m THEN o.m[k] ELSE Undefined

\* !x
Falsy(x) ==
    \/ x.t \in {"null", "undefined"}
    \/ x.t = "string" /\ x.v = ""
    \/ x.t = "boolean" /\ x.v = FALSE
    \/ x.t = "number" /\ x.v = 0

\* a ?? b
Coalesce(a, b) == IF a.t \in {"null", "undefined"} THEN b ELSE a

TypeOf(x) == x.t

-----------------------------------------------------------------------------
(* The state record *)

Keys == {"component", "isLoading", "on", "path", "props", "query",
         "referrer", "timestamp"}

this == [component |-> component, isLoading |-> isLoading, on |-> on,
         path |-> path, props |-> props, query |-> query,
         referrer |-> referrer, timestamp |-> timestamp]

defaults ==
    [component |-> Null,
     isLoading |-> JsFalse,
     on        |-> EmptyObj,
     path      |-> Null,
     props     |-> EmptyObj,
     query     |-> EmptyObj,
     referrer  |-> Null,
     timestamp |-> Null]

\* Module: the key the feature was created with
key == "dialog"

\* Module: a snapshot of all current fields
state(s) == Obj(s)

\* Module.set: the input is merged over the existing state field by field
parentSet(s, input) ==
    [k \in Keys |-> IF k \in DOMAIN input.m THEN input.m[k] ELSE s[k]]

isObject(x) == x.t = "object"

isUrl(x) == x.t = "url"

\* panel.url(path, query)
panelUrl(p, q) == [t |-> "url", path |-> p, query |-> q]

-----------------------------------------------------------------------------
(* Feature: the synchronous methods, as functions of the state record *)

\* the event names of `listeners` whose value is a function
Callable(listeners) ==
    {e \in DOMAIN listeners.m : TypeOf(listeners.m[e]) = "function"}

addEventListenersTakesAll(s, listeners) ==
    IF isObject(listeners) = FALSE
    THEN s
    ELSE [s EXCEPT !.on =
            Obj([e \in DOMAIN s.on.m \cup DOMAIN listeners.m |->
                    IF e \in DOMAIN listeners.m
                    THEN listeners.m[e]
                    ELSE s.on.m[e]])]

addEventListenersKeepsFirst(s, listeners) ==
    IF isObject(listeners) = FALSE
    THEN s
    ELSE [s EXCEPT !.on =
            Obj([e \in DOMAIN s.on.m \cup Callable(listeners) |->
                    IF e \in DOMAIN s.on.m
                    THEN s.on.m[e]
                    ELSE listeners.m[e]])]

addEventListeners(s, listeners) ==
    IF isObject(listeners) = FALSE
    THEN s
    ELSE [s EXCEPT !.on =
            Obj([e \in DOMAIN s.on.m \cup Callable(listeners) |->
                    IF e \in Callable(listeners)
                    THEN listeners.m[e]
                    ELSE s.on.m[e]])]

hasEventListener(s, event) == TypeOf(Get(s.on, event)) = "function"

\* what a handler returns is the handler's business
HandlerResult(fn, args) == [t |-> "result", of |-> fn.v, args |-> args]

\* emit: the value returned, and the handler invocations made
emit(s, event, args) ==
    IF hasEventListener(s, event) = TRUE
    THEN [ret     |-> HandlerResult(Get(s.on, event), args),
          invoked |-> <<[fn |-> Get(s.on, event), args |-> args]>>]
    ELSE [ret |-> Fn("noop"), invoked |-> <<>>]

hasSubmitter(s) ==
    IF hasEventListener(s, "submit") = TRUE
    THEN TRUE
    ELSE IF TypeOf(s.path) = "string"
         THEN TRUE
         ELSE FALSE

setKeepsListeners(s, input) ==
    addEventListeners([parentSet(s, input) EXCEPT !.on = s.on],
                      Coalesce(Get(input, "on"), EmptyObj))

setResetsProps(s, input) ==
    addEventListeners([parentSet(s, input) EXCEPT !.on = EmptyObj,
                                                  !.props = EmptyObj],
                      Coalesce(Get(input, "on"), EmptyObj))

setClearsLoading(s, input) ==
    addEventListeners([parentSet(s, input) EXCEPT !.on = EmptyObj,
                                                  !.isLoading = JsFalse],
                      Coalesce(Get(input, "on"), EmptyObj))

\* Feature.set: the state after the call (the call returns its snapshot)
set(s, input) ==
    addEventListeners([parentSet(s, input) EXCEPT !.on = EmptyObj],
                      Coalesce(Get(input, "on"), EmptyObj))

url(s) == panelUrl(s.path, s.query)

normalizeKeepsFunction(options) == options

\* open: a bare function as options is a submit handler
normalize(options) ==
    IF TypeOf(options) = "function"
    THEN Obj([on |-> Obj([submit |-> options])])
    ELSE options

-----------------------------------------------------------------------------
(* Feature: the async methods, cut at their await.  Each part gives the    *)
(* state it leaves (s), the value the method's promise settles to (ret),   *)
(* the panel calls it issues (net), the errors it hands to                 *)
(* panel.notification.error (notified) and the handlers it invokes.        *)

Pending     == [t |-> "pending"]            \* the promise is not settled yet
Throws(e)   == [t |-> "throws", e |-> e]      \* the promise rejects with e
PanelCall(fn, args) == [fn |-> fn, args |-> args]

\* a suspended call: the method awaiting, the method the caller invoked,
\* and the options.on the continuation still needs
Call(op, caller, optionsOn) == [op |-> op, caller |-> caller, on |-> optionsOn]
NoCall == Call("none", "none", Undefined)

Effect(s, ret, net, notified, invoked) ==
    [s |-> s, ret |-> ret, net |-> net, notified |-> notified,
     invoked |-> invoked, await |-> NoCall]

Await(effect, call) == [effect EXCEPT !.await = call]

\* load, up to `await panel.open(url, options)`
loadBegin(s, target, options) ==
    Await(Effect([s EXCEPT !.isLoading = JsTrue], Pending,
                 <<PanelCall("open", <<target, options>>)>>, <<>>, <<>>),
          Call("load", "load", Get(options, "on")))

loadEndKeepsLoading(s, optionsOn) ==
    LET s1 == addEventListeners(s, optionsOn)
    IN  Effect(s1, state(s1), <<>>, <<>>, <<>>)

\* load, after panel.open has resolved
loadEnd(s, optionsOn) ==
    LET s1 == addEventListeners([s EXCEPT !.isLoading = JsFalse], optionsOn)
    IN  Effect(s1, state(s1), <<>>, <<>>, <<>>)

\* load, when panel.open has thrown: nothing catches it
loadThrow(s, error) == Effect(s, Throws(error), <<>>, <<>>, <<>>)

openStateKeepsListeners(s, feature, options) ==
    LET s1 == setKeepsListeners(s, feature)
        s2 == addEventListeners(s1, Get(options, "on"))
        e  == emit(s2, "open", <<feature, options>>)
    IN  Effect(s2, state(s2), <<>>, <<>>, e.invoked)

\* open with a state object: no await on this path
openState(s, feature, options) ==
    LET s1 == set(s, feature)
        s2 == addEventListeners(s1, Get(options, "on"))
        e  == emit(s2, "open", <<feature, options>>)
    IN  Effect(s2, state(s2), <<>>, <<>>, e.invoked)

ErrorNotPostable(k) == Err(<<"The ", k, " cannot be posted">>)

\* the value post submits
postValue(s, value) ==
    Coalesce(Coalesce(value, Get(s.props, "value")), EmptyObj)

postBeginLoadsFirst(s, value, options) ==
    IF Falsy(s.path)
    THEN Effect([s EXCEPT !.isLoading = JsTrue],
                Throws(ErrorNotPostable("feature")), <<>>, <<>>, <<>>)
    ELSE Await(Effect([s EXCEPT !.isLoading = JsTrue], Pending,
                      <<PanelCall("post",
                                  <<s.path, postValue(s, value), options>>)>>,
                      <<>>, <<>>),
               Call("post", "post", Undefined))

\* post, up to `await panel.post(this.path, value, options)`
postBegin(s, value, options) ==
    IF Falsy(s.path)
    THEN Effect(s, Throws(ErrorNotPostable(key)), <<>>, <<>>, <<>>)
    ELSE Await(Effect([s EXCEPT !.isLoading = JsTrue], Pending,
                      <<PanelCall("post",
                                  <<s.path, postValue(s, value), options>>)>>,
                      <<>>, <<>>),
               Call("post", "post", Undefined))

\* post, after panel.post has resolved with `result`
postEnd(s, result) ==
    Effect([s EXCEPT !.isLoading = JsFalse], result, <<>>, <<>>, <<>>)

postCatchNoFinally(s, error) ==
    Effect(s, JsFalse, <<>>, <<error>>, <<>>)

postCatchRethrows(s, error) ==
    Effect([s EXCEPT !.isLoading = JsFalse], Throws(error), <<>>, <<>>, <<>>)

\* post, when panel.post has thrown: catch, finally, return false
postCatch(s, error) ==
    Effect([s EXCEPT !.isLoading = JsFalse], JsFalse, <<>>, <<error>>, <<>>)

\* refresh, up to `await panel.get(options.url, options)`
refreshBegin(s, options) ==
    LET u == Coalesce(Get(options, "url"), url(s))
    IN  Await(Effect(s, Pending, <<PanelCall("get", <<u, options>>)>>,
                     <<>>, <<>>),
              Call("refresh", "refresh", Undefined))

ResponseKey(k) == "$" \o k

refreshEndNoGuard(s, response) ==
    LET st == Get(response, ResponseKey(key))
    IN  IF Falsy(st)
        THEN Effect(s, Undefined, <<>>, <<>>, <<>>)
        ELSE LET s1 == [s EXCEPT !.props = Get(st, "props")]
             IN  Effect(s1, state(s1), <<>>, <<>>, <<>>)

refreshEndMerges(s, response) ==
    LET st == Get(response, ResponseKey(key))
    IN  IF Falsy(st) \/ Get(st, "component") # s.component
        THEN Effect(s, Undefined, <<>>, <<>>, <<>>)
        ELSE LET s1 == set(s, st)
             IN  Effect(s1, state(s1), <<>>, <<>>, <<>>)

refreshEndKeepsProps(s, response) ==
    LET st == Get(response, ResponseKey(key))
    IN  IF Falsy(st) \/ Get(st, "component") # s.component
        THEN Effect(s, Undefined, <<>>, <<>>, <<>>)
        ELSE Effect(s, state(s), <<>>, <<>>, <<>>)

\* refresh, after panel.get has resolved with `response`
refreshEnd(s, response) ==
    LET st == Get(response, ResponseKey(key))
    IN  IF Falsy(st) \/ Get(st, "component") # s.component
        THEN Effect(s, Undefined, <<>>, <<>>, <<>>)
        ELSE LET s1 == [s EXCEPT !.props = Get(st, "props")]
             IN  Effect(s1, state(s1), <<>>, <<>>, <<>>)

\* refresh, when panel.get has thrown: nothing catches it
refreshThrow(s, error) == Effect(s, Throws(error), <<>>, <<>>, <<>>)

\* open: by URL through load, or with a state object
open(s, feature, options) ==
    IF isUrl(feature) = TRUE
    THEN LET e == loadBegin(s, feature, normalize(options))
         IN  [e EXCEPT !.await.caller = "open"]
    ELSE openState(s, feature, normalize(options))

reloadSetsState(s, options) ==
    IF Falsy(s.path)
    THEN Effect(s, JsFalse, <<>>, <<>>, <<>>)
    ELSE LET e == open(set(s, Obj([path |-> s.path])), url(s), options)
         IN  [e EXCEPT !.ret = Undefined, !.await.caller = "reload"]

reloadReturnsOpen(s, options) ==
    IF Falsy(s.path)
    THEN Effect(s, JsFalse, <<>>, <<>>, <<>>)
    ELSE LET e == open(s, url(s), options)
         IN  [e EXCEPT !.await.caller = "reload"]

\* reload: the promise open returns is neither awaited nor returned
reload(s, options) ==
    IF Falsy(s.path)
    THEN Effect(s, JsFalse, <<>>, <<>>, <<>>)
    ELSE LET e == open(s, url(s), options)
         IN  [e EXCEPT !.ret = Undefined, !.await.caller = "reload"]

-----------------------------------------------------------------------------
(* The values the callers and the panel hand in *)

\* what addEventListeners is given: mappings, and values that are none
ListenerInputs ==
    {Obj([submit |-> Fn("fn1")]),
     Obj([submit |-> Fn("fn2")]),
     Obj([open |-> Fn("fn1")]),
     Obj([submit |-> Str("not callable")]),
     Undefined, Str("not a mapping")}

\* the full or partial state records given to set and open: one field at a
\* time, and the request fields (path, query, referrer, timestamp) as the
\* backend sends them, together
StateInputs ==
    {EmptyObj}
    \cup {Obj([component |-> v]) : v \in {Null, Str("k-a")}}
    \cup {Obj([isLoading |-> v]) : v \in {JsFalse, JsTrue}}
    \cup {Obj([on |-> v]) : v \in {Obj([submit |-> Fn("fn1")]),
                                  Obj([open |-> Fn("fn1")]),
                                  Obj([submit |-> Str("not callable")]),
                                  Null}}
    \cup {Obj([props |-> v]) : v \in {EmptyObj, Obj([value |-> Str("v1")])}}
    \cup {Obj([path |-> Str("/x"), query |-> Obj([page |-> Num(2)]),
               referrer |-> Str("/back"), timestamp |-> Num(1)]),
          Obj([path |-> Str(""), query |-> EmptyObj,
               referrer |-> Null, timestamp |-> Null]),
          Obj([path |-> Null, query |-> EmptyObj,
               referrer |-> Null, timestamp |-> Null])}

UrlInputs == {panelUrl(Str("/y"), EmptyObj)}

OptionInputs == {EmptyObj, Fn("fn2")}

\* the options open is given: with a state object that carries listeners,
\* also options that bring an open listener of their own
OpenOptionInputs(feature) ==
    IF isObject(feature) /\ "on" \in DOMAIN feature.m
    THEN OptionInputs \cup {Obj([on |-> Obj([open |-> Fn("fn2")])])}
    ELSE OptionInputs

\* the events emitted, and the arguments they are emitted with
EventInputs == {"submit", "open"}
ArgInputs   == {<<Str("a1")>>}

ValueInputs == {Undefined, Obj([title |-> Str("t")])}

\* what panel.post resolves to, and what the panel calls throw
Results == {Obj([ok |-> JsTrue]), Undefined}
Errors  == {Err("offline")}

\* the entry a response carries under $<key>: more than component and props
Entry(c, p) ==
    Obj([component |-> c, props |-> p, path |-> Str("/other"),
         isLoading |-> JsTrue, timestamp |-> Num(7)])

\* what panel.get resolves to: without an entry for this feature, with an
\* entry for each component, and with an entry that names no component
Responses ==
    {Obj([k \in {ResponseKey("drawer")} |-> Entry(Str("k-a"), EmptyObj)])}
    \cup {Obj([k \in {ResponseKey(key)} |-> Entry(c, Obj([value |-> Str("v1")]))]) :
            c \in {Null, Str("k-a"), Str("k-b")}}
    \cup {Obj([k \in {ResponseKey(key)} |->
                Obj([props |-> Obj([value |-> Str("v1")])])])}

-----------------------------------------------------------------------------
(* The date field: separate ISO values for the date and the time part,     *)
(* written by the handlers of the date input, the time input and the times *)
(* dropdown, and read by onInput.                                          *)

Dates == {"2024-05-01", "2024-05-02"}
Times == {"09:30:00", "18:00:00"}
Midnight == "00:00:00"

\* a dayjs object
Moment(d, tm) == [t |-> "dayjs", date |-> d, time |-> tm]
Moments == {Moment(d, tm) : d \in Dates, tm \in Times \cup {Midnight}}

\* dayjs.toISO(format)
toISO(m, format) ==
    IF format = "date" THEN Str(m.date)
    ELSE IF format = "time" THEN Str(m.time)
    ELSE Str(m.date \o " " \o m.time)

\* dayjs.iso(value): the dayjs object of an ISO string, null for anything else
dayjsIso(value) ==
    IF value.t = "string" /\ value.v \in {toISO(m, "datetime").v : m \in Moments}
    THEN CHOOSE m \in Moments : toISO(m, "datetime").v = value.v
    ELSE Null

\* String(x), as + applies it
JsString(x) == IF x.t = "string" THEN x.v ELSE x.t

toIso(value) ==
    LET dt == dayjsIso(value)
    IN  [date |-> IF dt = Null THEN Null ELSE toISO(dt, "date"),
         time |-> IF dt = Null THEN Null ELSE toISO(dt, "time")]

\* the field as created for the props value and time
data(value, time) ==
    [time |-> time, value |-> value, isInvalid |-> JsFalse, iso |-> toIso(value)]

\* now(), with the clock reading `clock`
now(f, clock) ==
    [date |-> toISO(clock, "date"),
     time |-> IF Falsy(f.time) THEN Str(Midnight) ELSE toISO(clock, "time")]

\* the computed isEmpty: the value of the && expression, not a boolean
isEmpty(f) ==
    IF Falsy(f.time) = FALSE
    THEN IF f.iso.date = Null THEN f.iso.time ELSE JsFalse
    ELSE IF f.iso.date = Null THEN JsTrue ELSE JsFalse

\* onInput: the values it emits as input events
onInput(f) ==
    IF Falsy(isEmpty(f)) = FALSE
    THEN <<Str("")>>
    ELSE LET dt == dayjsIso(Str(JsString(f.iso.date) \o " "
                                 \o JsString(f.iso.time)))
         IN  IF dt = Null /\ (f.iso.date = Null \/ f.iso.time = Null)
             THEN <<>>
             ELSE <<IF dt = Null THEN Str("") ELSE toISO(dt, "datetime")>>

\* what a handler did: the field it leaves, the clock reading it took from
\* now() (null when it took none), iso as onInput found it, and the events
\* onInput emitted
Handled(f, read, emitted) ==
    [f |-> f, now |-> read, atInput |-> f.iso, emitted |-> emitted]

onDateInputNoFill(f, value, clock) ==
    LET f1 == [f EXCEPT !.iso.date = value]
    IN  Handled(f1, Null, onInput(f1))

onDateInput(f, value, clock) ==
    LET fill == Falsy(value) = FALSE /\ Falsy(f.iso.time)
        f1   == IF fill
                THEN [f EXCEPT !.iso.time = now(f, clock).time]
                ELSE f
        f2   == [f1 EXCEPT !.iso.date = value]
    IN  Handled(f2, IF fill THEN now(f, clock) ELSE Null, onInput(f2))

onDateInvalid(f, invalid) == [f EXCEPT !.isInvalid = invalid]

onTimeInput(f, value, clock) ==
    LET fill == Falsy(value) = FALSE /\ Falsy(f.iso.date)
        f1   == IF fill
                THEN [f EXCEPT !.iso.date = now(f, clock).date]
                ELSE f
        f2   == [f1 EXCEPT !.iso.time = value]
    IN  Handled(f2, IF fill THEN now(f, clock) ELSE Null, onInput(f2))

onTimesInput(f, value, clock) ==
    onTimeInput(f, Str(JsString(value) \o ":00"), clock)

\* watch value
watchValue(f, newValue) ==
    IF newValue # f.value
    THEN [f EXCEPT !.value = newValue, !.iso = toIso(newValue)]
    ELSE f

\* what the inputs hand to the handlers, and the props the field is given
DateInputs  == {Null, Str("")} \cup {Str(d) : d \in Dates}
TimeInputs  == {Null, Str("")} \cup {Str(tm) : tm \in Times}
TimesInputs == {Str("09:30"), Str("18:00")}
ValueProps  == {Null, Str("")} \cup {toISO(m, "datetime") : m \in Moments}
TimeProps   == {EmptyObj, JsTrue, JsFalse}

NoInput == [op |-> "none", arg |-> Null, now |-> Null, atInput |-> Null,
            emitted |-> <<>>]

-----------------------------------------------------------------------------
(* The state machine *)

\* what reaches the caller: reload has resolved before the load it started
\* settles, so that load's outcome is observed by nobody
Delivered(call, ret) ==
    IF call.caller = "reload" THEN [t |-> "unobserved", of |-> ret] ELSE ret

Step(op, args, caller, e, ret) ==
    /\ component' = e.s.component
    /\ isLoading' = e.s.isLoading
    /\ on'        = e.s.on
    /\ path'      = e.s.path
    /\ props'     = e.s.props
    /\ query'     = e.s.query
    /\ referrer'  = e.s.referrer
    /\ timestamp' = e.s.timestamp
    /\ last' = [op |-> op, args |-> args, caller |-> caller, ret |-> ret,
                net |-> e.net, notified |-> e.notified, invoked |-> e.invoked]
    /\ UNCHANGED fieldVars

\* a method is called: it runs to its first await, or to its end
Invoke(op, args, e) ==
    /\ e.await # NoCall => BagCardinality(calls) < MaxCalls
    /\ calls' = IF e.await = NoCall THEN calls
                ELSE calls (+) SetToBag({e.await})
    /\ Step(op, args, op, e, e.ret)

\* the panel call of suspended call c settles and the method runs on to its end
Resume(op, args, c, e) ==
    /\ calls' = calls (-) SetToBag({c})
    /\ Step(op, args, c.caller, e, Delivered(c, e.ret))

FeatureInit ==
    /\ component = defaults.component
    /\ isLoading = defaults.isLoading
    /\ on        = defaults.on
    /\ path      = defaults.path
    /\ props     = defaults.props
    /\ query     = defaults.query
    /\ referrer  = defaults.referrer
    /\ timestamp = defaults.timestamp
    /\ calls = EmptyBag
    /\ last = [op |-> "init", args |-> <<>>, caller |-> "none",
               ret |-> Undefined, net |-> <<>>, notified |-> <<>>,
               invoked |-> <<>>]

Init ==
    /\ FeatureInit
    /\ field = data(Str(""), EmptyObj)
    /\ did = NoInput

Set ==
    \E input \in StateInputs :
        LET s1 == set(this, input)
        IN  Invoke("set", <<input>>, Effect(s1, state(s1), <<>>, <<>>, <<>>))

AddEventListeners ==
    \E listeners \in ListenerInputs :
        Invoke("addEventListeners", <<listeners>>,
               Effect(addEventListeners(this, listeners), Undefined,
                      <<>>, <<>>, <<>>))

Emit ==
    \E event \in EventInputs, args \in ArgInputs :
        LET e == emit(this, event, args)
        IN  Invoke("emit", <<event>>,
                   Effect(this, e.ret, <<>>, <<>>, e.invoked))

Load ==
    \E target \in UrlInputs, options \in OptionInputs :
        Invoke("load", <<>>, loadBegin(this, target, options))

Open ==
    \E feature \in StateInputs \cup UrlInputs :
      \E options \in OpenOptionInputs(feature) :
        Invoke("open", <<feature, options>>, open(this, feature, options))

Post ==
    \E value \in ValueInputs :
        Invoke("post", <<>>, postBegin(this, value, EmptyObj))

Refresh ==
    Invoke("refresh", <<>>, refreshBegin(this, EmptyObj))

Reload ==
    Invoke("reload", <<>>, reload(this, EmptyObj))

LoadEnd ==
    \E c \in BagToSet(calls) :
        /\ c.op = "load"
        /\ Resume("loadEnd", <<c.on>>, c, loadEnd(this, c.on))

LoadThrow ==
    \E c \in BagToSet(calls), error \in Errors :
        /\ c.op = "load"
        /\ Resume("loadThrow", <<error>>, c, loadThrow(this, error))

PostEnd ==
    \E c \in BagToSet(calls), result \in Results :
        /\ c.op = "post"
        /\ Resume("postEnd", <<result>>, c, postEnd(this, result))

PostCatch ==
    \E c \in BagToSet(calls), error \in Errors :
        /\ c.op = "post"
        /\ Resume("postCatch", <<error>>, c, postCatch(this, error))

RefreshEnd ==
    \E c \in BagToSet(calls), response \in Responses :
        /\ c.op = "refresh"
        /\ Resume("refreshEnd", <<response>>, c, refreshEnd(this, response))

RefreshThrow ==
    \E c \in BagToSet(calls), error \in Errors :
        /\ c.op = "refresh"
        /\ Resume("refreshThrow", <<error>>, c, refreshThrow(this, error))

Next ==
    \/ Set
    \/ AddEventListeners
    \/ Emit
    \/ Load
    \/ Open
    \/ Post
    \/ Refresh
    \/ Reload
    \/ LoadEnd
    \/ LoadThrow
    \/ PostEnd
    \/ PostCatch
    \/ RefreshEnd
    \/ RefreshThrow

Spec == Init /\ [][Next]_vars

\* The date field on its own, the Feature left alone

InitDate ==
    /\ FeatureInit
    /\ \E value \in ValueProps, time \in TimeProps : field = data(value, time)
    /\ did = NoInput

\* a handler of the field has run
Handle(op, arg, h) ==
    /\ field' = h.f
    /\ did' = [op |-> op, arg |-> arg, now |-> h.now,
                 atInput |-> h.atInput, emitted |-> h.emitted]
    /\ UNCHANGED vars

OnDateInput ==
    \E value \in DateInputs, clock \in Moments :
        Handle("onDateInput", value, onDateInput(field, value, clock))

OnTimeInput ==
    \E value \in TimeInputs, clock \in Moments :
        Handle("onTimeInput", value, onTimeInput(field, value, clock))

OnTimesInput ==
    \E value \in TimesInputs, clock \in Moments :
        Handle("onTimesInput", value, onTimesInput(field, value, clock))

OnDateInvalid ==
    \E invalid \in {JsTrue, JsFalse} :
        /\ field' = onDateInvalid(field, invalid)
        /\ did' = [NoInput EXCEPT !.op = "onDateInvalid", !.arg = invalid]
        /\ UNCHANGED vars

\* the parent hands the field a new value
WatchValue ==
    \E newValue \in ValueProps :
        /\ field' = watchValue(field, newValue)
        /\ did' = [NoInput EXCEPT !.op = "value", !.arg = newValue]
        /\ UNCHANGED vars

NextDate ==
    \/ OnDateInput
    \/ OnTimeInput
    \/ OnTimesInput
    \/ OnDateInvalid
    \/ WatchValue

SpecDate == InitDate /\ [][NextDate]_<<vars, fieldVars>>

-----------------------------------------------------------------------------
(* Properties *)

PostInFlight == \E c \in BagToSet(calls) : c.op = "post"

\* C1: post() on a Feature whose path is unset rejects with the error that
\* names the feature's key, and fails before any change: the state (isLoading
\* included) is what it was, no panel.post call is issued, nothing is left
\* suspended.
C1_PostWithoutPathFailsFirst ==
    [][(last'.op = "post" /\ path = Null) =>
        /\ last'.ret = Throws(Err(<<"The ", "dialog", " cannot be posted">>))
        /\ last'.net = <<>>
        /\ this' = this
        /\ calls' = calls]_vars

C1_Witness ==
    /\ last.op = "post"
    /\ last.ret.t = "throws"
    /\ path = Null
    /\ isLoading = JsFalse

\* C2: after post has begun on a Feature with a path, and until anything
\* else happens, isLoading is true and the panel.post call is in flight; when
\* post has resolved, by panel.post resolving or throwing, isLoading is false.
C2_LoadingWhilePostInFlight ==
    /\ (last.op = "post" /\ last.ret = Pending) =>
            (isLoading = JsTrue /\ PostInFlight)
    /\ last.op \in {"postEnd", "postCatch"} => isLoading = JsFalse

C2_Witness ==
    /\ last.op = "postCatch"
    /\ isLoading = JsFalse
    /\ calls = EmptyBag

\* C3: when panel.post throws, post does not rethrow: the error goes to
\* panel.notification.error, once, and post resolves to false; when
\* panel.post resolves, post resolves to its result and nothing is notified.
C3_PostErrorIsNotified ==
    /\ last.op = "postCatch" =>
            (last.ret = JsFalse /\ last.notified = <<last.args[1]>>)
    /\ last.op = "postEnd" =>
            (last.ret = last.args[1] /\ last.notified = <<>>)

C3_Witness ==
    /\ last.op = "postCatch"
    /\ last.notified = <<Err("offline")>>
    /\ last.ret = JsFalse

\* the entries of a listener mapping that can be called; none for a value
\* that is no mapping
CallableEntries(x) ==
    IF x.t = "object"
    THEN Obj([e \in {d \in DOMAIN x.m : x.m[d].t = "function"} |-> x.m[e]])
    ELSE EmptyObj

\* C4: after Feature.set(state), `on` holds exactly the callable entries of
\* state.on, and nothing when state.on is absent: no listener registered
\* before the call survives it, whatever calls came before.
C4_SetReplacesListeners ==
    last.op = "set" => on = CallableEntries(Get(last.args[1], "on"))

C4_Witness ==
    /\ last.op = "set"
    /\ Get(last.args[1], "on") = Undefined
    /\ on = EmptyObj
    /\ calls # EmptyBag

\* C5 as stated: after set(p), every state key not in p holds the value it
\* held before the call, and every key in p holds p[k].
C5_SetTouchesOnlyItsKeys ==
    [][last'.op = "set" =>
        \A k \in Keys :
            this'[k] = IF k \in DOMAIN last'.args[1].m
                       THEN last'.args[1].m[k]
                       ELSE this[k]]_vars

\* C5, amended: after set(p), every state key other than `on` that is not in
\* p holds the value it held before the call, and every key other than `on`
\* that is in p holds p[k].
C5_SetTouchesOnlyItsKeysAndOn ==
    [][last'.op = "set" =>
        \A k \in Keys \ {"on"} :
            this'[k] = IF k \in DOMAIN last'.args[1].m
                       THEN last'.args[1].m[k]
                       ELSE this[k]]_vars

C5_Witness ==
    /\ last.op = "set"
    /\ DOMAIN last.args[1].m = {"component"}
    /\ component = Str("k-a")
    /\ props = Obj([value |-> Str("v1")])
    /\ path = Str("/x")
    /\ timestamp = Num(1)

\* C6: hasSubmitter() is true if and only if on.submit is callable or path
\* is a non-empty string.
C6_HasSubmitter ==
    hasSubmitter(this) <=>
        \/ Get(on, "submit").t = "function"
        \/ (path.t = "string" /\ path.v # "")

\* what C7 and C8 tell apart: the response has no entry for this feature, or
\* the entry's component is not the component of state s
Stale(response, s) ==
    \/ ResponseKey(key) \notin DOMAIN response.m
    \/ Get(response.m[ResponseKey(key)], "component") # s.component

\* C7: when the response has no $<key> entry, or the entry's component is not
\* the Feature's component at the moment the response arrives, refresh
\* changes nothing in the state, throws nothing and returns no snapshot.
C7_StaleRefreshIsDropped ==
    [][(last'.op = "refreshEnd" /\ Stale(last'.args[1], this)) =>
        /\ this' = this
        /\ last'.ret = Undefined]_vars

C7_Witness ==
    /\ last.op = "refreshEnd"
    /\ last.ret = Undefined
    /\ ResponseKey(key) \in DOMAIN last.args[1].m
    /\ Get(last.args[1].m[ResponseKey(key)], "component") = Str("k-b")
    /\ component = Str("k-a")
    /\ props = Obj([value |-> Str("v1")])

\* C8: when the response has a $<key> entry whose component is the Feature's
\* current component, refresh replaces props with the entry's props, leaves
\* every other field as it was, whatever the entry carries for it, and
\* returns the snapshot of the updated state.
C8_RefreshReplacesPropsOnly ==
    [][(last'.op = "refreshEnd" /\ ~Stale(last'.args[1], this)) =>
        /\ props' = Get(last'.args[1].m[ResponseKey(key)], "props")
        /\ \A k \in Keys \ {"props"} : this'[k] = this[k]
        /\ last'.ret = Obj(this')]_vars

C8_Witness ==
    /\ last.op = "refreshEnd"
    /\ last.ret = Obj(this)
    /\ props = Obj([value |-> Str("v1")])
    /\ component = Str("k-a")
    /\ path = Str("/x")
    /\ timestamp = Num(1)

\* C9: reload() with path unset returns false, issues no panel call and
\* changes nothing; reload() with a path (a non-empty string) issues exactly
\* one panel.open call, for panel.url(path, query), and changes no field of
\* the state but isLoading: the state is not set.
C9_ReloadOpensOwnUrl ==
    [][last'.op = "reload" =>
        IF path = Null
        THEN /\ last'.ret = JsFalse
             /\ last'.net = <<>>
             /\ this' = this
             /\ calls' = calls
        ELSE (path.t = "string" /\ path.v # "") =>
             /\ Len(last'.net) = 1
             /\ last'.net[1].fn = "open"
             /\ last'.net[1].args[1] = [t |-> "url", path |-> path,
                                        query |-> query]
             /\ \A k \in Keys \ {"isLoading"} : this'[k] = this[k]]_vars

C9_Witness ==
    /\ last.op = "reload"
    /\ Len(last.net) = 1
    /\ path = Str("/x")
    /\ on = Obj([submit |-> Fn("fn1")])
    /\ isLoading = JsTrue

\* C10: when the panel.open call under load, open (by URL) or reload throws,
\* the promise the caller holds rejects with that same error.
C10_OpenErrorReachesCaller ==
    last.op = "loadThrow" => last.ret = Throws(last.args[1])

\* what emit does when `fn` is the one handler held for the event
Invokes(fn, args) ==
    [ret     |-> HandlerResult(fn, args),
     invoked |-> <<[fn |-> fn, args |-> args]>>]

\* C11: one handler is held per event name and the last registration wins:
\* once addEventListeners has registered a callable under an event name,
\* whatever was registered there before, emit of that event invokes that
\* callable exactly once with the arguments given and returns its result;
\* and every emit invokes at most the handler held for its event.
C11_LastRegistrationWins ==
    /\ (last.op = "addEventListeners" /\ isObject(last.args[1]))
         => \A e \in Callable(last.args[1]) : \A args \in ArgInputs :
              emit(this, e, args) = Invokes(last.args[1].m[e], args)
    /\ (last.op = "emit" /\ hasEventListener(this, last.args[1]))
         => \E args \in ArgInputs :
              /\ last.invoked = Invokes(on.m[last.args[1]], args).invoked
              /\ last.ret = Invokes(on.m[last.args[1]], args).ret

C11_Witness ==
    /\ last.op = "emit"
    /\ last.args = <<"submit">>
    /\ \E args \in ArgInputs : last.invoked = Invokes(Fn("fn2"), args).invoked

\* the last step is open(stateObj, options) with a state object whose `on`
\* is { open: fn }
OpenWithOpenListener ==
    /\ last.op = "open"
    /\ isObject(last.args[1])
    /\ "on" \in DOMAIN last.args[1].m
    /\ isObject(last.args[1].m.on)
    /\ DOMAIN last.args[1].m.on.m = {"open"}
    /\ TypeOf(last.args[1].m.on.m.open) = "function"

\* the listeners the options of the last open bring
LastOptionsOn == Get(normalize(last.args[2]), "on")

\* C12 as stated: open(stateObj, options) with a state object whose `on` is
\* { open: fn } leaves no submit listener from before the call (only one the
\* options bring), invokes fn exactly once with (stateObj, options), the
\* options in the form open works with, and makes no panel call.
C12_OpenInvokesStateListener ==
    OpenWithOpenListener =>
        /\ Get(on, "submit") = Get(CallableEntries(LastOptionsOn), "submit")
        /\ last.invoked = <<[fn   |-> last.args[1].m.on.m.open,
                             args |-> <<last.args[1], normalize(last.args[2])>>]>>
        /\ last.net = <<>>

\* C12 amended: the same, for options that bring no open listener of their
\* own; when they do, that listener replaces fn and is the one invoked.
C12_OpenInvokesHeldListener ==
    OpenWithOpenListener =>
        /\ Get(on, "submit") = Get(CallableEntries(LastOptionsOn), "submit")
        /\ last.invoked =
              <<[fn   |-> IF TypeOf(Get(LastOptionsOn, "open")) = "function"
                          THEN Get(LastOptionsOn, "open")
                          ELSE last.args[1].m.on.m.open,
                 args |-> <<last.args[1], normalize(last.args[2])>>]>>
        /\ last.net = <<>>

C12_Witness ==
    /\ OpenWithOpenListener
    /\ last.args[2] = EmptyObj
    /\ last.invoked = <<[fn |-> Fn("fn1"), args |-> last.args]>>
    /\ hasEventListener(this, "submit") = FALSE

\* C13: once the panel.open call of a load has finished, by resolving or by
\* throwing, and no other call is in flight, isLoading is false.
C13_LoadReturnsToIdle ==
    (last.op \in {"loadEnd", "loadThrow"} /\ calls = EmptyBag)
        => isLoading = JsFalse

\* a load or a post of this Feature is suspended at its await
LoadOrPostInFlight == \E c \in BagToSet(calls) : c.op \in {"load", "post"}

\* C14: overlapping load/post calls are not mutually excluded: a load that
\* resolves, and a post that resolves or fails, sets isLoading to false
\* whether or not other load/post calls of the Feature are still in flight.
C14_FirstToCompleteClearsLoading ==
    last.op \in {"loadEnd", "postEnd", "postCatch"} => isLoading = JsFalse

C14_Witness ==
    /\ last.op \in {"loadEnd", "postEnd", "postCatch"}
    /\ isLoading = JsFalse
    /\ LoadOrPostInFlight

\* the step taken is set(stateObj), or open(stateObj, options) with a state
\* object
SetsStateObject ==
    \/ last'.op = "set"
    \/ last'.op = "open" /\ isObject(last'.args[1])

\* C15 as stated: open with a state object, and set, leave isLoading as it
\* was before the call.
C15_SetAndOpenKeepLoading ==
    [][SetsStateObject => isLoading' = isLoading]_vars

\* C15 amended: they leave isLoading as it was unless the state object has
\* an isLoading key of its own, whose value isLoading then takes.
C15_SetAndOpenKeepLoadingUnlessGiven ==
    [][SetsStateObject =>
         isLoading' = IF "isLoading" \in DOMAIN last'.args[1].m
                      THEN last'.args[1].m.isLoading
                      ELSE isLoading]_vars

\* a state object opened while a load is in flight: the loader stays on
C15_Witness ==
    /\ last.op = "open"
    /\ isObject(last.args[1])
    /\ "isLoading" \notin DOMAIN last.args[1].m
    /\ isLoading = JsTrue
    /\ \E c \in BagToSet(calls) : c.op = "load"

\* the options that hand fn to open as its submit handler
SubmitOptions(fn) == Obj([on |-> Obj([submit |-> fn])])

\* C16: open(target, fn) with a bare callable fn behaves as
\* open(target, { on: { submit: fn } }): every such step does what the call
\* with the options object does from the same state; with a state object
\* on.submit is fn when open returns, whatever target.on holds; by URL the
\* call leaves `on` alone until panel.open has resolved, and on.submit is fn
\* once it has.
C16_BareCallableIsSubmitHandler ==
    [][/\ (last'.op = "open" /\ TypeOf(last'.args[2]) = "function")
          => \E e \in {open(this, last'.args[1], SubmitOptions(last'.args[2]))} :
                 /\ this' = e.s
                 /\ last'.ret = e.ret
                 /\ last'.net = e.net
                 /\ last'.invoked = e.invoked
                 /\ calls' = IF e.await = NoCall THEN calls
                             ELSE calls (+) SetToBag({e.await})
                 /\ IF isUrl(last'.args[1])
                    THEN /\ on' = on
                         /\ e.await.on = Obj([submit |-> last'.args[2]])
                    ELSE Get(on', "submit") = last'.args[2]
       /\ (last'.op = "loadEnd" /\ last'.caller = "open"
              /\ TypeOf(Get(last'.args[1], "submit")) = "function")
          => Get(on', "submit") = Get(last'.args[1], "submit")]_vars

\* open with a state object that brings a submit handler of its own
C16_Witness ==
    /\ last.op = "open"
    /\ last.args = <<Obj([on |-> Obj([submit |-> Fn("fn1")])]), Fn("fn2")>>
    /\ Get(on, "submit") = Fn("fn2")

\* C17: malformed listener input is ignored without error and without
\* effect: addEventListeners with an argument that is no mapping leaves the
\* whole state as it was, an entry whose value is not callable leaves what
\* is held under its event name as it was, and the call returns normally.
C17_MalformedListenersIgnored ==
    [][last'.op = "addEventListeners" =>
         /\ last'.ret = Undefined
         /\ isObject(last'.args[1]) = FALSE => this' = this
         /\ isObject(last'.args[1]) = TRUE =>
              \A e \in DOMAIN last'.args[1].m :
                  TypeOf(last'.args[1].m[e]) # "function"
                      => Get(on', e) = Get(on, e)]_vars

\* an entry that is not callable, offered where a handler is registered
C17_Witness ==
    /\ last.op = "addEventListeners"
    /\ isObject(last.args[1])
    /\ \E e \in DOMAIN last.args[1].m :
          /\ TypeOf(last.args[1].m[e]) # "function"
          /\ Get(on, e) = Fn("fn1")

\* C18: reload() on a Feature with a path does not wait for the load it
\* starts: when reload has returned, its promise is settled with undefined,
\* the one panel.open call it issued is still pending under its load, and
\* isLoading is true.
C18_ReloadDoesNotWait ==
    (last.op = "reload" /\ Falsy(path) = FALSE) =>
        /\ last.ret = Undefined
        /\ Len(last.net) = 1
        /\ last.net[1].fn = "open"
        /\ isLoading = JsTrue
        /\ \E c \in BagToSet(calls) : c.op = "load" /\ c.caller = "reload"

C18_Witness ==
    /\ last.op = "reload"
    /\ last.ret = Undefined
    /\ isLoading = JsTrue
    /\ BagToSet(calls) = {Call("load", "reload", Undefined)}

\* set has just written props while a refresh is in flight
SetPropsDuringRefresh ==
    /\ last.op = "set"
    /\ "props" \in DOMAIN last.args[1].m
    /\ \E c \in BagToSet(calls) : c.op = "refresh"

\* C19: the refresh guard compares only the component at response time:
\* when set has written new props while a refresh is in flight and the
\* response then arrives with an entry for the component the Feature still
\* has, props become the entry's props, whatever set wrote.
C19_LateRefreshOverwritesProps ==
    [][(SetPropsDuringRefresh /\ last'.op = "refreshEnd"
            /\ ~Stale(last'.args[1], this))
         => /\ props' = Get(last'.args[1].m[ResponseKey(key)], "props")
            /\ last'.ret = Obj(this')]_vars

\* props just written by set, and a response on its way that replaces them
C19_Witness ==
    /\ SetPropsDuringRefresh
    /\ props = last.args[1].m.props
    /\ \E response \in Responses :
          /\ ~Stale(response, this)
          /\ refreshEnd(this, response).s.props # props

====
